---- MODULE Spec2Model ----
(***************************************************************************)
(* Youtube2Bilibili: the pipeline controller (scripts/auto_runner.py main), *)
(* the history ledger (services/history_store.py), the publish retrier     *)
(* (upload_with_retry), the job poller (wait_task_with_progress) and the   *)
(* structured-output retrier (AIClient.chat_json).                         *)
(*                                                                         *)
(* Python values are modelled as follows.  A string that may be None or    *)
(* empty is the string itself, "" standing for both (the code only tests   *)
(* their truthiness).  An optional number is a sequence of length 0 or 1.  *)
(* A ledger line is the record that append_history wrote; json.dumps and   *)
(* json.loads of such a record (strings and integers, on one line) are     *)
(* inverse to each other, so a line is kept as the record.  Fields that no *)
(* branch reads (yt_url, uploaded_at, title, tags, desc) are left out.     *)
(***************************************************************************)
EXTENDS Integers, Sequences, FiniteSets, TLC

VARIABLES
    \* ---- main() ----
    pc,              \* position of the controller
    run,             \* number of runs started so far
    cleanup_remote,  \* cfg["cleanup_remote"]
    kwLeft,          \* keywords not yet searched in this run
    vidLeft,         \* results of the current search not yet visited
    seen,            \* candidates discovery has returned so far, over all runs
    v,               \* the candidate in hand
    outcome,         \* what the controller printed last for the candidate
    task_id,         \* the job submitted for the candidate, "" if none
    deleted,         \* delete_task calls made for task_id
    ledger,          \* the lines of the history file
    loaded,          \* number of lines the file held when this run loaded it
    processed,       \* the in-memory processed set
    trail,           \* the calls made for the candidate in hand, in order
    \* ---- upload_with_retry() ----
    attempts,        \* parameter attempts
    backoff_sec,     \* parameter backoff_sec
    up_i,            \* loop variable i
    wait,            \* local wait
    codes,           \* exit codes the publisher returned, in order
    sleeps,          \* durations passed to time.sleep, in order
    upRet,           \* the returned (success, code), <<>> before the return
    \* ---- wait_task_with_progress() ----
    poll_sec,        \* parameter poll_sec
    timeout_sec,     \* parameter timeout_sec
    elapsed,         \* time.time() - start
    pollPc,          \* "fetch" while in the loop, "returned" after the return
    pollRet,         \* the returned status mapping, <<>> before the return
    beat,            \* parity of the number of get_status calls
    \* ---- AIClient.chat_json() ----
    max_tries,       \* local max_tries
    total_timeout,   \* self.total_timeout
    retry_backoff,   \* self.retry_backoff
    cj_i,            \* loop variable i
    reminders,       \* corrective system messages appended to msgs
    backoff,         \* local backoff
    cjNow,           \* time.monotonic() - start
    last_err,        \* local last_err, "" for None
    kinds,           \* what each attempt so far produced, in order
    cjSleeps,        \* durations passed to time.sleep, in order
    calls,           \* the times at which a completion was requested, in order
    cjPc,            \* "loop", "returned" or "raised"
    cjRet,           \* the returned mapping, <<>> before the return
    \* ---- run_biliup() ----
    tags,            \* parameter tags
    filt,            \* local filt
    tag_str,         \* local tag_str, the value of --tag
    tagPc,           \* "call" before the tag string is built, "built" after
    \* ---- check_duplicate() and the branch of main() on its verdict ----
    title,           \* parameter title
    translator,      \* whether a translator was passed
    zh_title,        \* local zh_title, <<>> for None
    query_title,     \* local query_title
    candidates,      \* local candidates
    result,          \* local result, <<>> before it is built
    failed,          \* the steps whose call raised
    dupPc,           \* position in check_duplicate, "decided" after the branch
    dupNext,         \* where main() goes with the verdict, "" before
    \* ---- _extract_json() and the tests of chat_json() on its result ----
    txt,             \* the text the completion returned
    exData,          \* what _extract_json returned, <<>> if it raised or not yet
    exPc,            \* "call", then "parsed" or "raised", then "returned" or "next"
    exOut            \* what chat_json returns for txt, <<>> if nothing

mainVars == <<pc, run, cleanup_remote, kwLeft, vidLeft, seen, v, outcome, task_id,
              deleted, ledger, loaded, processed, trail>>
upVars == <<attempts, backoff_sec, up_i, wait, codes, sleeps, upRet>>
pollVars == <<poll_sec, timeout_sec, elapsed, pollPc, pollRet, beat>>
chatVars == <<max_tries, total_timeout, retry_backoff, cj_i, reminders, backoff, cjNow, last_err,
              kinds, cjSleeps, calls, cjPc, cjRet>>
tagVars == <<tags, filt, tag_str, tagPc>>
dupVars == <<title, translator, zh_title, query_title, candidates, result, failed,
             dupPc, dupNext>>
exVars == <<txt, exData, exPc, exOut>>
vars == <<mainVars, upVars, pollVars, chatVars, tagVars, dupVars, exVars>>

Max(a, b) == IF a >= b THEN a ELSE b
Min(a, b) == IF a <= b THEN a ELSE b

(***************************************************************************)
(* Bounds of the model.                                                    *)
(***************************************************************************)
MaxRuns == 2
MaxResults == 2
MaxCandidates == 3
MaxAttempts == 6
CfgUploadAttempts == 2
MaxTimeout == 4
MaxTries == 3
MaxTextLen == 3
MaxRepeat == 7
MaxOutputLen == 5

Keywords == <<"kw1", "kw2">>
Ids == {"", "v1", "v2"}
ExitCodes == {0, 1, 2}
TaskIds == {"t1"}

(***************************************************************************)
(* Configuration read by main() (auto_runner.py 203-213).                  *)
(***************************************************************************)
min_dur == 10
max_dur == 3600
blacklist == {"bad"}
cutoff == 20200101
DefaultBackoff == 20
BackoffCap == 300
RetryBackoffCap == 60
MinTagLen == 2
MaxTagLen == 4
FallbackTags == 6
TagLimit == 12

Lower(s) == IF s = "Bad" THEN "bad" ELSE s

\* len(v.upload_date) == 8
DateLen8(d) == d \in {"20100101", "20240101", "2024ab01"}

\* datetime.strptime(d, "%Y%m%d"): <<>> when it raises
Strptime(d) ==
    CASE d = "20100101" -> <<20100101>>
      [] d = "20240101" -> <<20240101>>
      [] OTHER -> <<>>

\* What search_videos may return for a keyword.
SearchResults ==
    { [id |-> i, duration |-> d[1], uploader |-> d[2], upload_date |-> d[3]] :
        i \in Ids,
        d \in { << <<120>>, "ok", "20240101" >>,
                << <<5>>, "Bad", "20100101" >>,
                << <<>>, "Bad", "20100101" >>,
                << <<120>>, "", "20100101" >>,
                << <<>>, "", "2024ab01" >> } }

\* Candidates over every kind of duration, uploader and upload date.
AllCandidates ==
    [id : Ids,
     duration : {<<>>, <<5>>, <<10>>, <<120>>, <<3600>>, <<4000>>},
     uploader : {"", "ok", "bad", "Bad"},
     upload_date : {"", "2010", "2024ab01", "20100101", "20240101"}]

NoVideo == [id |-> "", duration |-> <<>>, uploader |-> "", upload_date |-> ""]

(***************************************************************************)
(* services/history_store.py                                               *)
(***************************************************************************)
\* obj.get("yt_id") or obj.get("id")
RecordId(r) ==
    IF "yt_id" \in DOMAIN r /\ r.yt_id # "" THEN r.yt_id
    ELSE IF "id" \in DOMAIN r THEN r.id
    ELSE ""

\* A load that reads the identifier only from lines carrying a "status" key.
LoadHistoryIds_StatusOnly(file) ==
    { RecordId(file[k]) :
        k \in { j \in DOMAIN file :
                  RecordId(file[j]) # "" /\ "status" \in DOMAIN file[j] } }

LoadHistoryIds(file) ==
    { RecordId(file[k]) : k \in { j \in DOMAIN file : RecordId(file[j]) # "" } }

\* A write that replaces the file by the new line.
AppendHistory_Rewrite(file, record) == <<record>>
AppendHistory(file, record) == Append(file, record)

(***************************************************************************)
(* The records main() appends.                                             *)
(***************************************************************************)
\* A duration record that leaves the identifier out.
SkipDuration_NoId(c) ==
    [status |-> "skipped", reason |-> "duration_out_of_range",
     duration |-> c.duration]
SkipDuration(c) ==
    [yt_id |-> c.id, status |-> "skipped", reason |-> "duration_out_of_range",
     duration |-> c.duration]
SkipBlacklist(c) ==
    [yt_id |-> c.id, status |-> "skipped", reason |-> "blacklisted_channel",
     channel |-> c.uploader]
SkipTooOld(c) ==
    [yt_id |-> c.id, status |-> "skipped", reason |-> "too_old",
     upload_date |-> c.upload_date]
\* A duplicate record that leaves the identifier out.
SkipDuplicate_NoId(c) ==
    [status |-> "skipped", reason |-> "duplicate"]
SkipDuplicate(c) ==
    [yt_id |-> c.id, status |-> "skipped", reason |-> "duplicate"]
\* A success record written under another key than "yt_id".
CompletedRecord_OtherKey(c, t) ==
    [video_id |-> c.id, task_id |-> t]
CompletedRecord(c, t) ==
    [yt_id |-> c.id, task_id |-> t]
Diag(code) == IF code = 1 THEN "exit 1" ELSE IF code = 2 THEN "exit 2" ELSE "exit 0"
\* A failure record that looks like a success record.
UploadFailedRecord_AsSuccess(c, t, n, code) ==
    [yt_id |-> c.id, task_id |-> t]
UploadFailedRecord(c, t, n, code) ==
    [yt_id |-> c.id, status |-> "upload_failed", reason |-> Diag(code),
     attempts |-> n, task_id |-> t]

\* A success record carries no "status" key (auto_runner.py 341-349).
IsCompleted(r) == "status" \notin DOMAIN r
IsSkipped(r) == "status" \in DOMAIN r /\ r.status = "skipped"
IsUploadFailed(r) == "status" \in DOMAIN r /\ r.status = "upload_failed"

(***************************************************************************)
(* The filters of main() (auto_runner.py 221-269), as the name of the      *)
(* first branch that takes the candidate, "pass" when none does.           *)
(***************************************************************************)
DurationOut(c) ==
    c.duration # <<>> /\ (c.duration[1] < min_dur \/ c.duration[1] > max_dur)
Blacklisted(c) == c.uploader # "" /\ Lower(c.uploader) \in blacklist
\* A date check that takes an unreadable date for an old one.
TooOld_Unreadable(c) ==
    /\ c.upload_date # ""
    /\ DateLen8(c.upload_date)
    /\ (Strptime(c.upload_date) = <<>> \/ Strptime(c.upload_date)[1] < cutoff)
TooOld(c) ==
    /\ c.upload_date # ""
    /\ DateLen8(c.upload_date)
    /\ Strptime(c.upload_date) # <<>>
    /\ Strptime(c.upload_date)[1] < cutoff

\* A processed check that never skips.
AlreadyProcessed_Never(c, done) == FALSE
AlreadyProcessed(c, done) == c.id # "" /\ c.id \in done

\* The filters with the processed check moved behind the duration check.
FilterBranch_DurationFirst(c, done) ==
    IF DurationOut(c) THEN "skip_duration"
    ELSE IF AlreadyProcessed(c, done) THEN "skip_processed"
    ELSE IF Blacklisted(c) THEN "skip_blacklist"
    ELSE IF TooOld(c) THEN "skip_too_old"
    ELSE "pass"

FilterBranch(c, done) ==
    IF AlreadyProcessed(c, done) THEN "skip_processed"
    ELSE IF DurationOut(c) THEN "skip_duration"
    ELSE IF Blacklisted(c) THEN "skip_blacklist"
    ELSE IF TooOld(c) THEN "skip_too_old"
    ELSE "pass"

FilterRecord(c, branch) ==
    CASE branch = "skip_duration" -> SkipDuration(c)
      [] branch = "skip_blacklist" -> SkipBlacklist(c)
      [] OTHER -> SkipTooOld(c)

\* The names under which the calls made for a candidate are noted in trail.
DuplicateStep(duplicate) ==
    IF duplicate THEN "duplicate_positive" ELSE "duplicate_negative"
PollStep(status) == IF status = "completed" THEN "poll_completed" ELSE "poll_failed"

\* A test of the job's result that lets every result through.
Completed_Any(status) == TRUE
\* res.get("status") != "completed" (auto_runner.py 302), negated
Completed(status) == status = "completed"

\* if cleanup_remote: api.delete_task(task_id)
Cleanup(on, n) == IF on THEN n + 1 ELSE n

(***************************************************************************)
(* upload_with_retry (auto_runner.py 144-160)                              *)
(***************************************************************************)
InitWait(b) == Max(1, b)
LoopEnd(n) == Max(1, n)
\* A retry test that also holds at the last iteration.
SleepsAfter_Inclusive(i, n) == i <= n
SleepsAfter(i, n) == i < n
\* A doubling that forgets the cap.
NextWait_NoCap(w) == w * 2
NextWait(w) == Min(w * 2, BackoffCap)

UploadLocals(n, b) ==
    /\ attempts' = n
    /\ backoff_sec' = b
    /\ up_i' = 1
    /\ wait' = InitWait(b)
    /\ codes' = <<>>
    /\ sleeps' = <<>>
    /\ upRet' = <<>>

\* One iteration of the for loop: run_biliup, then return or back off.
UploadAttempt ==
    /\ pc = "upload"
    /\ up_i <= LoopEnd(attempts)
    /\ \E code \in ExitCodes :
        /\ codes' = Append(codes, code)
        /\ IF code = 0
           THEN /\ upRet' = <<TRUE, code>>
                /\ pc' = "uploaded"
                /\ UNCHANGED <<up_i, wait, sleeps>>
           ELSE /\ IF SleepsAfter(up_i, attempts)
                   THEN /\ sleeps' = Append(sleeps, wait)
                        /\ wait' = NextWait(wait)
                   ELSE UNCHANGED <<sleeps, wait>>
                /\ up_i' = up_i + 1
                /\ UNCHANGED <<upRet, pc>>
    /\ UNCHANGED <<attempts, backoff_sec, pollVars, chatVars, tagVars, dupVars, exVars>>
    /\ UNCHANGED <<run, cleanup_remote, kwLeft, vidLeft, seen, v, outcome, task_id,
                   deleted, ledger, loaded, processed>>
    /\ trail' = IF codes = <<>> THEN Append(trail, "publish") ELSE trail

\* The loop is exhausted: return False, code, out, err.
UploadExhausted ==
    /\ pc = "upload"
    /\ up_i > LoopEnd(attempts)
    /\ upRet' = <<FALSE, codes[Len(codes)]>>
    /\ pc' = "uploaded"
    /\ UNCHANGED <<attempts, backoff_sec, up_i, wait, codes, sleeps, pollVars,
                   chatVars, tagVars, dupVars, exVars>>
    /\ UNCHANGED <<run, cleanup_remote, kwLeft, vidLeft, seen, v, outcome, task_id,
                   deleted, ledger, loaded, processed>>
    /\ UNCHANGED trail

(***************************************************************************)
(* main() (auto_runner.py 163-367)                                         *)
(***************************************************************************)
Stopped == pc \in {"idle", "done", "startup_failed", "crashed"}

\* Configuration or startup error: main returns before the loop (164-201).
StartupFails ==
    /\ Stopped
    /\ run < MaxRuns
    /\ run' = run + 1
    /\ pc' = "startup_failed"
    /\ processed' = {}
    /\ v' = NoVideo
    /\ outcome' = ""
    /\ task_id' = ""
    /\ deleted' = 0
    /\ kwLeft' = 0
    /\ vidLeft' = 0
    /\ trail' = <<>>
    /\ UNCHANGED <<cleanup_remote, seen, ledger, loaded, upVars, pollVars, chatVars, tagVars, dupVars, exVars>>

\* A run starts: the configuration is read and the ledger loaded (203-213).
StartRun ==
    /\ Stopped
    /\ run < MaxRuns
    /\ run' = run + 1
    /\ pc' = "loop"
    /\ processed' = LoadHistoryIds(ledger)
    /\ loaded' = Len(ledger)
    /\ cleanup_remote' \in BOOLEAN
    /\ kwLeft' = Len(Keywords)
    /\ vidLeft' = 0
    /\ v' = NoVideo
    /\ outcome' = ""
    /\ task_id' = ""
    /\ deleted' = 0
    /\ trail' = <<>>
    /\ UNCHANGED <<seen, ledger, upVars, pollVars, chatVars, tagVars, dupVars, exVars>>

\* for kw in keywords: videos = search_videos(kw, ...) (215-217)
NextKeyword ==
    /\ pc = "loop"
    /\ vidLeft = 0
    /\ kwLeft > 0
    /\ kwLeft' = kwLeft - 1
    /\ vidLeft' \in 0..Min(MaxResults, MaxCandidates - seen)
    /\ seen' = seen + vidLeft'
    /\ UNCHANGED <<pc, run, cleanup_remote, v, outcome, task_id, deleted, trail,
                   ledger, loaded, processed, upVars, pollVars, chatVars, tagVars, dupVars, exVars>>

\* Both loops are exhausted: main returns.
EndRun ==
    /\ pc = "loop"
    /\ vidLeft = 0
    /\ kwLeft = 0
    /\ pc' = "done"
    /\ UNCHANGED <<run, cleanup_remote, kwLeft, vidLeft, seen, v, outcome, task_id,
                   trail, deleted, ledger, loaded, processed, upVars, pollVars, chatVars, tagVars, dupVars, exVars>>

\* for v in videos: the processed check and the three filters (218-269), for
\* a candidate of pool.
Visit(pool) ==
    /\ pc = "loop"
    /\ vidLeft > 0
    /\ vidLeft' = vidLeft - 1
    /\ \E c \in pool :
        LET branch == FilterBranch(c, processed) IN
        /\ v' = c
        /\ outcome' = branch
        /\ IF branch = "pass"
           THEN /\ pc' = "check_duplicate"
                /\ UNCHANGED <<ledger, processed>>
           ELSE /\ pc' = "loop"
                /\ IF branch # "skip_processed" /\ c.id # ""
                   THEN /\ ledger' = AppendHistory(ledger, FilterRecord(c, branch))
                        /\ processed' = processed \cup {c.id}
                   ELSE UNCHANGED <<ledger, processed>>
    /\ task_id' = ""
    /\ deleted' = 0
    /\ trail' = <<"filter">>
    /\ UNCHANGED <<run, cleanup_remote, kwLeft, seen, loaded, upVars, pollVars,
                   chatVars, tagVars, dupVars, exVars>>

FilterCandidate == Visit(SearchResults)

\* The same for a candidate of any kind.
FilterAnyCandidate == Visit(AllCandidates)

\* verdict = check_duplicate(v.title, translator=ai) (270-289)
CheckDuplicate ==
    /\ pc = "check_duplicate"
    /\ \E duplicate \in BOOLEAN :
        /\ trail' = Append(trail, DuplicateStep(duplicate))
        /\ IF duplicate
           THEN /\ outcome' = "skip_duplicate"
                /\ pc' = "loop"
                /\ IF v.id # ""
                   THEN /\ ledger' = AppendHistory(ledger, SkipDuplicate(v))
                        /\ processed' = processed \cup {v.id}
                   ELSE UNCHANGED <<ledger, processed>>
           ELSE /\ pc' = "submit"
                /\ UNCHANGED <<outcome, ledger, processed>>
    /\ UNCHANGED <<run, cleanup_remote, kwLeft, vidLeft, seen, v, task_id, deleted,
                   loaded, upVars, pollVars, chatVars, tagVars, dupVars, exVars>>

\* task_id = api.process_url(...) (292-300); the call raises on a remote error
\* and nothing in main catches it.
Submit ==
    /\ pc = "submit"
    /\ trail' = Append(trail, "submit")
    /\ \/ /\ \E t \in TaskIds : task_id' = t
          /\ pc' = "wait"
          /\ outcome' = "submitted"
       \/ /\ pc' = "crashed"
          /\ outcome' = "submit_error"
          /\ UNCHANGED task_id
    /\ UNCHANGED <<run, cleanup_remote, kwLeft, vidLeft, seen, v, deleted, ledger,
                   loaded, processed, upVars, pollVars, chatVars, tagVars, dupVars, exVars>>

\* res = wait_task_with_progress(api, task_id) and the branch on it (301-307)
WaitTask ==
    /\ pc = "wait"
    /\ \E status \in {"completed", "failed"} :
        /\ trail' = Append(trail, PollStep(status))
        /\ IF ~Completed(status)
           THEN /\ outcome' = "task_failed"
                /\ deleted' = Cleanup(cleanup_remote, deleted)
                /\ pc' = "loop"
           ELSE /\ pc' = "download_srt"
                /\ UNCHANGED <<outcome, deleted>>
    /\ UNCHANGED <<run, cleanup_remote, kwLeft, vidLeft, seen, v, task_id, ledger,
                   loaded, processed, upVars, pollVars, chatVars, tagVars, dupVars, exVars>>

\* api.download_file(task_id, "trans_srt", ...) (310-314); raises on error
DownloadSubs ==
    /\ pc = "download_srt"
    /\ trail' = Append(trail, "fetch_subtitle")
    /\ \/ /\ pc' = "download_video"
          /\ UNCHANGED outcome
       \/ /\ pc' = "crashed"
          /\ outcome' = "download_error"
    /\ UNCHANGED <<run, cleanup_remote, kwLeft, vidLeft, seen, v, task_id, deleted,
                   ledger, loaded, processed, upVars, pollVars, chatVars, tagVars, dupVars, exVars>>

\* api.download_file(task_id, "video_sub" | "video_dub", ...) (316-318)
DownloadVideo ==
    /\ pc = "download_video"
    /\ trail' = Append(trail, "fetch_media")
    /\ \/ /\ pc' = "generate"
          /\ UNCHANGED outcome
       \/ /\ pc' = "crashed"
          /\ outcome' = "download_error"
    /\ UNCHANGED <<run, cleanup_remote, kwLeft, vidLeft, seen, v, task_id, deleted,
                   ledger, loaded, processed, upVars, pollVars, chatVars, tagVars, dupVars, exVars>>

\* pack = tagger.generate(...), the templates and the cover (320-333), then the
\* call of upload_with_retry (336-337); generate raises when chat_json does.
GenerateMetadata ==
    /\ pc = "generate"
    /\ trail' = Append(trail, "metadata")
    /\ \/ /\ pc' = "upload"
          /\ UploadLocals(CfgUploadAttempts, DefaultBackoff)
          /\ UNCHANGED outcome
       \/ /\ pc' = "crashed"
          /\ outcome' = "metadata_error"
          /\ UNCHANGED upVars
    /\ UNCHANGED <<run, cleanup_remote, kwLeft, vidLeft, seen, v, task_id, deleted,
                   ledger, loaded, processed, pollVars, chatVars, tagVars, dupVars, exVars>>

\* The result of upload_with_retry is recorded and the job released (338-367).
RecordOutcome ==
    /\ pc = "uploaded"
    /\ trail' = Append(trail, "record")
    /\ IF upRet[1]
       THEN /\ outcome' = "completed"
            /\ ledger' = AppendHistory(ledger, CompletedRecord(v, task_id))
            /\ processed' = processed \cup {v.id}
       ELSE /\ outcome' = "upload_failed"
            /\ IF v.id # ""
               THEN ledger' = AppendHistory(ledger,
                        UploadFailedRecord(v, task_id, attempts, upRet[2]))
               ELSE UNCHANGED ledger
            /\ UNCHANGED processed
    /\ deleted' = Cleanup(cleanup_remote, deleted)
    /\ pc' = "loop"
    /\ UploadLocals(0, 0)
    /\ UNCHANGED <<run, cleanup_remote, kwLeft, vidLeft, seen, v, task_id, loaded,
                   pollVars, chatVars, tagVars, dupVars, exVars>>

(***************************************************************************)
(* wait_task_with_progress (auto_runner.py 52-86).  Time is counted in     *)
(* seconds from start; the clock stops counting at MaxClock, which is      *)
(* above every timeout_sec of the model, so "elapsed > timeout_sec" is     *)
(* decided as in the code; beat alternates with every call of get_status,  *)
(* so a round of the loop is a step also once the clock has stopped.  The  *)
(* step label and its printed line are left out.                           *)
(***************************************************************************)
MaxClock == MaxTimeout + 2 * 12 + 2
Clock(t) == Min(t, MaxClock)

PollSecs == {1, 3, 12}
FetchTimes == {0, 1}
Statuses == {"", "running", "completed", "failed"}
Progresses == {<<>>, <<0 - 5>>, <<50>>, <<150>>}

\* pct = max(0, min(100, int(prog))) for a number, 0 otherwise (68-74)
Pct(prog) == IF prog = <<>> THEN 0 ELSE Max(0, Min(100, prog[1]))

ErrorSleep(p) == Min(10, p)
TimedOut(t, limit) == t > limit

\* api.get_status raises: sleep and go round again (57-62).
PollError ==
    /\ pollPc = "fetch"
    /\ \E d \in FetchTimes :
        elapsed' = Clock(elapsed + d + ErrorSleep(poll_sec))
    /\ beat' = 1 - beat
    /\ UNCHANGED <<poll_sec, timeout_sec, pollPc, pollRet>>
    /\ UNCHANGED <<mainVars, upVars, chatVars, tagVars, dupVars, exVars>>

\* api.get_status returns a snapshot (58, 64-86).
PollStatus ==
    /\ pollPc = "fetch"
    /\ \E d \in FetchTimes, status \in Statuses, prog \in Progresses :
        LET t == Clock(elapsed + d) IN
        IF status \in {"completed", "failed"}
        THEN /\ pollRet' = [status |-> status, message |-> "", progress |-> prog]
             /\ pollPc' = "returned"
             /\ elapsed' = t
        ELSE IF TimedOut(t, timeout_sec)
        THEN /\ pollRet' = [status |-> "failed", message |-> "timeout",
                            progress |-> <<Pct(prog)>>]
             /\ pollPc' = "returned"
             /\ elapsed' = t
        ELSE /\ elapsed' = Clock(t + poll_sec)
             /\ UNCHANGED <<pollPc, pollRet>>
    /\ beat' = 1 - beat
    /\ UNCHANGED <<poll_sec, timeout_sec>>
    /\ UNCHANGED <<mainVars, upVars, chatVars, tagVars, dupVars, exVars>>

(***************************************************************************)
(* AIClient._extract_json (ai_client.py 132-148).  A model output is a     *)
(* sequence of tokens: "1" is a JSON number, "x" a word that is not JSON,  *)
(* "{" v "}" the object with one member whose value is v ("{" "}" the      *)
(* empty object) and "[" v "]" the array holding v ("[" "]" the empty      *)
(* array).  A parsed value is kept as its token sequence.                  *)
(***************************************************************************)
Tokens == {"{", "}", "[", "]", "1", "x"}
Texts == UNION { [1..n -> Tokens] : n \in 0..MaxTextLen }

RECURSIVE IsJson(_)
IsJson(s) ==
    IF Len(s) = 0 THEN FALSE
    ELSE IF Len(s) = 1 THEN s[1] = "1"
    ELSE /\ \/ s[1] = "{" /\ s[Len(s)] = "}"
            \/ s[1] = "[" /\ s[Len(s)] = "]"
         /\ Len(s) = 2 \/ IsJson(SubSeq(s, 2, Len(s) - 1))

\* json.loads(text): <<value>>, or <<>> when it raises
JsonLoads(s) == IF IsJson(s) THEN <<s>> ELSE <<>>

FirstIndex(s, tok) ==
    IF \E i \in DOMAIN s : s[i] = tok
    THEN CHOOSE i \in DOMAIN s : s[i] = tok /\ \A j \in 1..(i - 1) : s[j] # tok
    ELSE 0
LastIndex(s, tok) ==
    IF \E i \in DOMAIN s : s[i] = tok
    THEN CHOOSE i \in DOMAIN s : s[i] = tok /\ \A j \in (i + 1)..Len(s) : s[j] # tok
    ELSE 0

\* re.search(open [\s\S]* close, text): the leftmost opener that a closer
\* follows, up to the last closer; <<group(0)>>, or <<>> when nothing matches
Search(s, open, close) ==
    LET i == FirstIndex(s, open)
        j == LastIndex(s, close)
    IN IF i > 0 /\ j > i THEN <<SubSeq(s, i, j)>> ELSE <<>>

\* <<value>>, or <<>> when _extract_json raises
ExtractJson(text) ==
    IF JsonLoads(text) # <<>> THEN JsonLoads(text)
    ELSE IF Search(text, "{", "}") # <<>> THEN JsonLoads(Search(text, "{", "}")[1])
    ELSE IF Search(text, "[", "]") # <<>> THEN JsonLoads(Search(text, "[", "]")[1])
    ELSE <<>>

\* isinstance(data, dict), isinstance(data, list), or neither
KindOf(data) ==
    IF data[1] = "{" THEN "object" ELSE IF data[1] = "[" THEN "array" ELSE "scalar"

EmptyDict == <<"{", "}">>

(***************************************************************************)
(* AIClient.chat_json (ai_client.py 84-130).  Time is counted in seconds   *)
(* from start.  A completion either raises (a transport error, or the      *)
(* request or stream timeout) or returns a text, after some time.          *)
(***************************************************************************)
CallTimes == {1, 60}
TotalTimeouts == {0, 50, 600}
RetryBackoffs == {5, 40}
Completions ==
    { [raises |-> e, text |-> <<>>] : e \in {"error", "timeout"} }
        \cup { [raises |-> "", text |-> t] : t \in Texts }

\* A budget that is granted anew to every attempt.
Remaining_PerAttempt(total, now) == total
Remaining(total, now) == total - now
NextBackoff(b) == Min(b * 2, RetryBackoffCap)
SleepTime(b, total) == Min(b, Max(0, total))
Retries(i, n) == i < n - 1

\* The except branch (117-127) after the attempt ended at time t with error e.
ChatFail(e, out, t) ==
    /\ last_err' = e
    /\ kinds' = Append(kinds, out)
    /\ reminders' = reminders + 1
    /\ IF Retries(cj_i, max_tries)
       THEN /\ cjSleeps' = Append(cjSleeps, SleepTime(backoff, total_timeout))
            /\ cjNow' = t + SleepTime(backoff, total_timeout)
            /\ backoff' = NextBackoff(backoff)
       ELSE /\ cjNow' = t
            /\ UNCHANGED <<cjSleeps, backoff>>
    /\ cj_i' = cj_i + 1
    /\ UNCHANGED <<cjPc, cjRet>>

\* One iteration of the for loop (101-127).
ChatAttempt ==
    /\ cjPc = "loop"
    /\ cj_i < max_tries
    /\ IF Remaining(total_timeout, cjNow) <= 0
       THEN /\ ChatFail("TimeoutError", "budget", cjNow)
            /\ UNCHANGED calls
       ELSE \E d \in CallTimes, c \in Completions :
            LET t == cjNow + d
                data == ExtractJson(c.text)
            IN  /\ calls' = Append(calls, cjNow)
                /\ IF c.raises # "" THEN ChatFail(c.raises, c.raises, t)
                   ELSE IF data = <<>> THEN ChatFail("ValueError", "parse", t)
                   ELSE IF KindOf(data[1]) = "object"
                   THEN /\ cjRet' = <<[dict |-> data[1]]>>
                        /\ cjPc' = "returned"
                        /\ kinds' = Append(kinds, "object")
                        /\ cjNow' = t
                        /\ UNCHANGED <<cj_i, reminders, backoff, last_err, cjSleeps>>
                   ELSE IF KindOf(data[1]) = "array"
                   THEN /\ cjRet' = <<[list |-> data[1]]>>
                        /\ cjPc' = "returned"
                        /\ kinds' = Append(kinds, "array")
                        /\ cjNow' = t
                        /\ UNCHANGED <<cj_i, reminders, backoff, last_err, cjSleeps>>
                   ELSE /\ kinds' = Append(kinds, "scalar")
                        /\ cjNow' = t
                        /\ cj_i' = cj_i + 1
                        /\ UNCHANGED <<reminders, backoff, last_err, cjSleeps, cjPc,
                                       cjRet>>
    /\ UNCHANGED <<max_tries, total_timeout, retry_backoff>>
    /\ UNCHANGED <<mainVars, upVars, pollVars, tagVars, dupVars, exVars>>

\* The loop is exhausted (128-130).
ChatExhausted ==
    /\ cjPc = "loop"
    /\ cj_i >= max_tries
    /\ IF last_err # ""
       THEN /\ cjPc' = "raised"
            /\ UNCHANGED cjRet
       ELSE /\ cjPc' = "returned"
            /\ cjRet' = <<[dict |-> EmptyDict]>>
    /\ UNCHANGED <<max_tries, total_timeout, retry_backoff, cj_i, reminders,
                   backoff, cjNow, last_err, kinds, cjSleeps, calls>>
    /\ UNCHANGED <<mainVars, upVars, pollVars, tagVars, dupVars, exVars>>

(***************************************************************************)
(* run_biliup (auto_runner.py 118-127): the tag string.  A tag is the      *)
(* sequence of its characters, " " standing for white space; a character   *)
(* outside ASCII is written by its reading ("zhong" for one CJK            *)
(* character), so that Len counts characters as len() does.                *)
(***************************************************************************)
\* t.strip()
Strip_Left(t) ==
    LET idx == { i \in DOMAIN t : t[i] # " " }
    IN IF idx = {} THEN <<>>
       ELSE SubSeq(t, CHOOSE i \in idx : \A j \in idx : i <= j, Len(t))
Strip(t) ==
    LET idx == { i \in DOMAIN t : t[i] # " " }
    IN IF idx = {} THEN <<>>
       ELSE SubSeq(t, CHOOSE i \in idx : \A j \in idx : i <= j,
                      CHOOSE i \in idx : \A j \in idx : i >= j)

\* 2 <= len(t) <= 4, for the stripped t
KeepTag_Strict(t) == MinTagLen < Len(t) /\ Len(t) <= MaxTagLen
KeepTag(t) == MinTagLen <= Len(t) /\ Len(t) <= MaxTagLen

\* s[:n]
Prefix(s, n) == SubSeq(s, 1, Min(n, Len(s)))

\* the loop of lines 121-124
RECURSIVE Filter(_)
Filter(list) ==
    IF list = <<>> THEN <<>>
    ELSE (IF KeepTag(Strip(Head(list))) THEN <<Strip(Head(list))>> ELSE <<>>)
            \o Filter(Tail(list))

\* if not filt and tags: filt = tags[:6]
Fallback(f, list) ==
    IF f = <<>> /\ list # <<>> THEN Prefix(list, FallbackTags) ELSE f

\* ",".join(list)
RECURSIVE Join(_)
Join(list) ==
    IF list = <<>> THEN <<>>
    ELSE IF Len(list) = 1 THEN list[1]
    ELSE list[1] \o <<",">> \o Join(Tail(list))

\* The tag list of the example in the specification.
ExampleTags ==
    << <<"A", "B">>,
       <<"zhong", "wen", "biao", "qian">>,
       <<"X">>,
       <<"er", "zi">>,
       <<"chao", "chang", "biao", "qian", "shi", "li", "qi">> >>

\* The tags the lists of the model are made of.
TagPool ==
    { ExampleTags[k] : k \in DOMAIN ExampleTags }
        \cup { <<>>, <<" ">>, <<" ", "X", " ">>, <<" ", "er", "zi", " ", " ">>,
               <<" ", "A", "B", "C", "D", " ">> }

Repeat(t, n) == [k \in 1..n |-> t]

\* The lists run_biliup is called with: the example, every list of up to two
\* tags, and every list made of two runs of up to MaxRepeat equal tags.
TagLists ==
    {ExampleTags}
        \cup UNION { [1..n -> TagPool] : n \in 0..2 }
        \cup { Repeat(a, n) \o Repeat(b, m) :
                 a \in TagPool, b \in TagPool, n \in 0..MaxRepeat, m \in 0..MaxRepeat }

\* Lines 120-127.
BuildTagStr ==
    /\ tagPc = "call"
    /\ filt' = Fallback(Filter(tags), tags)
    /\ tag_str' = Join(Prefix(filt', TagLimit))
    /\ tagPc' = "built"
    /\ UNCHANGED tags
    /\ UNCHANGED <<mainVars, upVars, pollVars, chatVars, dupVars, exVars>>

(***************************************************************************)
(* check_duplicate (bilibili_check.py 41-99), with translate_title_to_zh   *)
(* and judge_duplicate (ai_client.py 150-157, 167-189), and the branch of  *)
(* main() on the verdict (auto_runner.py 270-290).  A key that a mapping   *)
(* returned by chat_json may lack is a sequence of length 0 or 1.          *)
(***************************************************************************)
Titles == {"", "title"}
ZhTitles == {"", "zh"}
CandidateLists == {<<>>, <<"c1">>, <<"c1", "c2">>}

\* What chat_json may return to judge_duplicate.
JudgeData ==
    [duplicate : {<<>>, <<TRUE>>, <<FALSE>>},
     reason : {<<>>, <<"same video">>},
     matched : {<<>>, << <<"c1">> >>}]

\* judge_duplicate fills in the missing keys (ai_client.py 183-189).
JudgeDuplicate(data) ==
    [duplicate |-> IF data.duplicate = <<>> THEN FALSE ELSE data.duplicate[1],
     reason |-> IF data.reason = <<>> THEN "" ELSE data.reason[1],
     matched |-> IF data.matched = <<>> THEN <<>> ELSE data.matched[1]]

\* zh_title or title
QueryTitle(zh, t) == IF zh # <<>> /\ zh[1] # "" THEN zh[1] ELSE t

\* The result before the judge is asked (bilibili_check.py 91).
InitialResult(q, cands) ==
    [duplicate |-> FALSE, reason |-> "", matched |-> <<>>, zh_title |-> q,
     candidates |-> cands]

\* result.update(...) with the three keys of the verdict
Merge(res, verdict) ==
    [res EXCEPT !.duplicate = verdict.duplicate, !.reason = verdict.reason,
                !.matched = verdict.matched]

\* A handler that answers a failed judge call with a positive verdict.
JudgeFailure_Positive(res) ==
    [res EXCEPT !.duplicate = TRUE, !.reason = "judge failed"]
\* except Exception as e: result["reason"] = ...
JudgeFailure(res) == [res EXCEPT !.reason = "judge failed"]

\* if verdict.get("duplicate"): ... continue (auto_runner.py 271-289)
VerdictBranch(res) == IF res.duplicate THEN "skip_duplicate" ELSE "submit"

\* Lines 49-55: the title is translated when a translator is given.
DupTranslate ==
    /\ dupPc = "translate"
    /\ IF ~translator
       THEN zh_title' = <<>> /\ UNCHANGED failed
       ELSE IF title = ""
       THEN zh_title' = <<title>> /\ UNCHANGED failed
       ELSE \/ zh_title' = <<>> /\ failed' = failed \cup {"translate"}
            \/ \E zh \in ZhTitles : zh_title' = <<zh>> /\ UNCHANGED failed
    /\ query_title' = QueryTitle(zh_title', title)
    /\ dupPc' = "lookup"
    /\ UNCHANGED <<title, translator, candidates, result, dupNext>>
    /\ UNCHANGED <<mainVars, upVars, pollVars, chatVars, tagVars, exVars>>

\* Lines 57-89: the search page is fetched and parsed; line 91.
DupLookup ==
    /\ dupPc = "lookup"
    /\ \/ candidates' = <<>> /\ failed' = failed \cup {"lookup"}
       \/ \E cands \in CandidateLists : candidates' = cands /\ UNCHANGED failed
    /\ result' = <<InitialResult(query_title, candidates')>>
    /\ dupPc' = "judge"
    /\ UNCHANGED <<title, translator, zh_title, query_title, dupNext>>
    /\ UNCHANGED <<mainVars, upVars, pollVars, chatVars, tagVars, exVars>>

\* Lines 92-99: the judge is asked when a translator is given; return.
DupJudge ==
    /\ dupPc = "judge"
    /\ IF ~translator
       THEN UNCHANGED <<result, failed>>
       ELSE \/ /\ result' = <<JudgeFailure(result[1])>>
               /\ failed' = failed \cup {"judge"}
            \/ /\ \E data \in JudgeData :
                    result' = <<Merge(result[1], JudgeDuplicate(data))>>
               /\ UNCHANGED failed
    /\ dupPc' = "returned"
    /\ UNCHANGED <<title, translator, zh_title, query_title, candidates, dupNext>>
    /\ UNCHANGED <<mainVars, upVars, pollVars, chatVars, tagVars, exVars>>

\* main() branches on the verdict (auto_runner.py 271-290).
DupBranch ==
    /\ dupPc = "returned"
    /\ dupNext' = VerdictBranch(result[1])
    /\ dupPc' = "decided"
    /\ UNCHANGED <<title, translator, zh_title, query_title, candidates, result,
                   failed>>
    /\ UNCHANGED <<mainVars, upVars, pollVars, chatVars, tagVars, exVars>>

(***************************************************************************)
(* _extract_json on one text and what chat_json does with the result       *)
(* (ai_client.py 110-116, 132-148).                                        *)
(***************************************************************************)
Outputs == UNION { [1..n -> Tokens] : n \in 0..MaxOutputLen }

\* data = self._extract_json(txt)
Extract ==
    /\ exPc = "call"
    /\ exData' = ExtractJson(txt)
    /\ exPc' = IF exData' = <<>> THEN "raised" ELSE "parsed"
    /\ UNCHANGED <<txt, exOut>>
    /\ UNCHANGED <<mainVars, upVars, pollVars, chatVars, tagVars, dupVars>>

\* The isinstance tests on exData (112-116): return it, return it wrapped, or
\* go on to the next iteration.
ReturnData ==
    /\ exPc = "parsed"
    /\ IF KindOf(exData[1]) = "object"
       THEN exOut' = <<[dict |-> exData[1]]>> /\ exPc' = "returned"
       ELSE IF KindOf(exData[1]) = "array"
       THEN exOut' = <<[list |-> exData[1]]>> /\ exPc' = "returned"
       ELSE exOut' = <<>> /\ exPc' = "next"
    /\ UNCHANGED <<txt, exData>>
    /\ UNCHANGED <<mainVars, upVars, pollVars, chatVars, tagVars, dupVars>>

(***************************************************************************)
(* Initial states.                                                         *)
(***************************************************************************)
MainIdle ==
    /\ pc = "idle"
    /\ run = 0
    /\ cleanup_remote = TRUE
    /\ kwLeft = 0
    /\ vidLeft = 0
    /\ seen = 0
    /\ v = NoVideo
    /\ outcome = ""
    /\ task_id = ""
    /\ deleted = 0
    /\ ledger = <<>>
    /\ loaded = 0
    /\ processed = {}
    /\ trail = <<>>

UploadIdle ==
    /\ attempts = 0
    /\ backoff_sec = 0
    /\ up_i = 1
    /\ wait = InitWait(0)
    /\ codes = <<>>
    /\ sleeps = <<>>
    /\ upRet = <<>>

PollIdle ==
    /\ poll_sec = 3
    /\ timeout_sec = 0
    /\ elapsed = 0
    /\ pollPc = "returned"
    /\ pollRet = <<>>
    /\ beat = 0

ChatIdle ==
    /\ max_tries = 0
    /\ total_timeout = 0
    /\ retry_backoff = 0
    /\ cj_i = 0
    /\ reminders = 0
    /\ backoff = 0
    /\ cjNow = 0
    /\ last_err = ""
    /\ kinds = <<>>
    /\ cjSleeps = <<>>
    /\ calls = <<>>
    /\ cjPc = "returned"
    /\ cjRet = <<>>

TagIdle ==
    /\ tags = <<>>
    /\ filt = <<>>
    /\ tag_str = <<>>
    /\ tagPc = "built"

DupIdle ==
    /\ title = ""
    /\ translator = TRUE
    /\ zh_title = <<>>
    /\ query_title = ""
    /\ candidates = <<>>
    /\ result = <<>>
    /\ failed = {}
    /\ dupPc = "decided"
    /\ dupNext = ""

ExtractIdle ==
    /\ txt = <<>>
    /\ exData = <<>>
    /\ exPc = "returned"
    /\ exOut = <<>>

\* The controller, from an empty history file.
Init ==
    MainIdle /\ UploadIdle /\ PollIdle /\ ChatIdle /\ TagIdle /\ DupIdle
        /\ ExtractIdle

Next ==
    \/ StartupFails
    \/ StartRun
    \/ NextKeyword
    \/ EndRun
    \/ FilterCandidate
    \/ CheckDuplicate
    \/ Submit
    \/ WaitTask
    \/ DownloadSubs
    \/ DownloadVideo
    \/ GenerateMetadata
    \/ UploadAttempt
    \/ UploadExhausted
    \/ RecordOutcome

Spec == Init /\ [][Next]_vars

\* upload_with_retry alone, called with any attempts and backoff_sec.
BackoffSecs == {0 - 3, 0, 1, 20, 100, 300, 400}

InitUpload ==
    /\ run = 0
    /\ cleanup_remote = TRUE
    /\ kwLeft = 0
    /\ vidLeft = 0
    /\ seen = 0
    /\ v = NoVideo
    /\ outcome = ""
    /\ task_id = ""
    /\ deleted = 0
    /\ ledger = <<>>
    /\ loaded = 0
    /\ processed = {}
    /\ trail = <<>>
    /\ pc = "upload"
    /\ attempts \in (0 - 1)..MaxAttempts
    /\ backoff_sec \in BackoffSecs
    /\ up_i = 1
    /\ wait = InitWait(backoff_sec)
    /\ codes = <<>>
    /\ sleeps = <<>>
    /\ upRet = <<>>
    /\ PollIdle
    /\ ChatIdle
    /\ TagIdle
    /\ DupIdle
    /\ ExtractIdle

NextUpload ==
    \/ UploadAttempt
    \/ UploadExhausted

SpecUpload == InitUpload /\ [][NextUpload]_vars

\* wait_task_with_progress alone, called with any poll_sec and timeout_sec.
InitPoll ==
    /\ MainIdle
    /\ UploadIdle
    /\ ChatIdle
    /\ TagIdle
    /\ DupIdle
    /\ ExtractIdle
    /\ poll_sec \in PollSecs
    /\ timeout_sec \in 0..MaxTimeout
    /\ elapsed = 0
    /\ pollPc = "fetch"
    /\ pollRet = <<>>
    /\ beat = 0

NextPoll ==
    \/ PollError
    \/ PollStatus

SpecPoll == InitPoll /\ [][NextPoll]_vars

\* The loop of wait_task_with_progress keeps running while it has not returned.
FairSpecPoll == SpecPoll /\ WF_vars(NextPoll)

\* chat_json alone, called with any retries, over any completions.
InitChat ==
    /\ MainIdle
    /\ UploadIdle
    /\ PollIdle
    /\ TagIdle
    /\ DupIdle
    /\ ExtractIdle
    /\ max_tries \in 0..MaxTries
    /\ total_timeout \in TotalTimeouts
    /\ retry_backoff \in RetryBackoffs
    /\ backoff = retry_backoff
    /\ cj_i = 0
    /\ reminders = 0
    /\ cjNow = 0
    /\ last_err = ""
    /\ kinds = <<>>
    /\ cjSleeps = <<>>
    /\ calls = <<>>
    /\ cjPc = "loop"
    /\ cjRet = <<>>

NextChat ==
    \/ ChatAttempt
    \/ ChatExhausted

SpecChat == InitChat /\ [][NextChat]_vars

\* run_biliup's tag string alone, for any tag list.
InitTags ==
    /\ MainIdle
    /\ UploadIdle
    /\ PollIdle
    /\ ChatIdle
    /\ DupIdle
    /\ ExtractIdle
    /\ tags \in TagLists
    /\ filt = <<>>
    /\ tag_str = <<>>
    /\ tagPc = "call"

NextTags == BuildTagStr

SpecTags == InitTags /\ [][NextTags]_vars

\* The publish of one candidate, for any configured upload_retry_attempts,
\* its record, and the visit of the next candidate up to its submission.
InitPublish ==
    /\ pc = "upload"
    /\ run = 1
    /\ cleanup_remote \in BOOLEAN
    /\ kwLeft = 0
    /\ vidLeft = 1
    /\ seen = 2
    /\ v \in { c \in SearchResults : FilterBranch(c, {}) = "pass" }
    /\ outcome = "submitted"
    /\ task_id \in TaskIds
    /\ deleted = 0
    /\ ledger = <<>>
    /\ loaded = 0
    /\ processed = {}
    /\ trail = <<"filter", "duplicate_negative", "submit", "poll_completed",
                 "fetch_subtitle", "fetch_media", "metadata">>
    /\ attempts \in (0 - 1)..MaxAttempts
    /\ backoff_sec = DefaultBackoff
    /\ up_i = 1
    /\ wait = InitWait(backoff_sec)
    /\ codes = <<>>
    /\ sleeps = <<>>
    /\ upRet = <<>>
    /\ PollIdle
    /\ ChatIdle
    /\ TagIdle
    /\ DupIdle
    /\ ExtractIdle

NextPublish ==
    \/ UploadAttempt
    \/ UploadExhausted
    \/ RecordOutcome
    \/ FilterCandidate
    \/ CheckDuplicate
    \/ Submit

SpecPublish == InitPublish /\ [][NextPublish]_vars

\* The filters alone: one candidate of any kind is visited in a run that has
\* written every line of the ledger itself.
PriorLedgers ==
    {<<>>}
        \cup { <<CompletedRecord([id |-> i], "t1")>> : i \in Ids }
        \cup { <<SkipDuplicate([id |-> "v1"])>>,
               <<CompletedRecord([id |-> "v1"], "t1"), SkipDuplicate([id |-> "v2"])>> }

InitFilter ==
    /\ pc = "loop"
    /\ run = 1
    /\ cleanup_remote = TRUE
    /\ kwLeft = 0
    /\ vidLeft = 1
    /\ seen = 1
    /\ v = NoVideo
    /\ outcome = ""
    /\ task_id = ""
    /\ deleted = 0
    /\ ledger \in PriorLedgers
    /\ loaded = 0
    /\ processed = { ledger[k].yt_id : k \in DOMAIN ledger }
    /\ trail = <<>>
    /\ UploadIdle
    /\ PollIdle
    /\ ChatIdle
    /\ TagIdle
    /\ DupIdle
    /\ ExtractIdle

NextFilter == FilterAnyCandidate

SpecFilter == InitFilter /\ [][NextFilter]_vars

\* check_duplicate alone, for any title, and main()'s branch on its verdict.
InitDup ==
    /\ MainIdle
    /\ UploadIdle
    /\ PollIdle
    /\ ChatIdle
    /\ TagIdle
    /\ ExtractIdle
    /\ title \in Titles
    /\ translator \in BOOLEAN
    /\ zh_title = <<>>
    /\ query_title = ""
    /\ candidates = <<>>
    /\ result = <<>>
    /\ failed = {}
    /\ dupPc = "translate"
    /\ dupNext = ""

NextDup ==
    \/ DupTranslate
    \/ DupLookup
    \/ DupJudge
    \/ DupBranch

SpecDup == InitDup /\ [][NextDup]_vars

\* _extract_json alone, on any text.
InitExtract ==
    /\ MainIdle
    /\ UploadIdle
    /\ PollIdle
    /\ ChatIdle
    /\ TagIdle
    /\ DupIdle
    /\ txt \in Outputs
    /\ exData = <<>>
    /\ exPc = "call"
    /\ exOut = <<>>

NextExtract ==
    \/ Extract
    \/ ReturnData

SpecExtract == InitExtract /\ [][NextExtract]_vars

(***************************************************************************)
(* Properties of the controller.                                           *)
(***************************************************************************)
\* The lines the current run loaded.
Loaded == SubSeq(ledger, 1, loaded)

\* The file holds a completed or skipped record written for identifier id.
HasTerminalRecord(file, id) ==
    \E k \in DOMAIN file :
        /\ "yt_id" \in DOMAIN file[k]
        /\ file[k].yt_id = id
        /\ (IsCompleted(file[k]) \/ IsSkipped(file[k]))

\* The file holds a record for id, and all its records for id are upload_failed.
OnlyUploadFailed(file, id) ==
    /\ \E k \in DOMAIN file : "yt_id" \in DOMAIN file[k] /\ file[k].yt_id = id
    /\ \A k \in DOMAIN file :
        ("yt_id" \in DOMAIN file[k] /\ file[k].yt_id = id) => IsUploadFailed(file[k])

\* This step calls api.process_url for v.
SubmitCall == pc = "submit" /\ pc' # "submit"
\* This step calls the publisher for v.
PublishCall == Len(codes') > Len(codes)

\* C1 (as stated): a candidate that the ledger a run started from records as
\* completed or skipped is never passed to process_url or to the publisher
\* in that run.
C1_Idempotent ==
    [][(SubmitCall \/ PublishCall) => ~HasTerminalRecord(Loaded, v.id)]_vars

\* C1 (amended): the same, for every candidate with a non-empty identifier.
C1_IdempotentNonEmptyId ==
    [][((SubmitCall \/ PublishCall) /\ v.id # "")
          => ~HasTerminalRecord(Loaded, v.id)]_vars

\* A later run meets a candidate that an earlier run completed or skipped,
\* and skips it as already processed.
C1_Witness ==
    /\ run = 2
    /\ outcome = "skip_processed"
    /\ v.id # ""
    /\ HasTerminalRecord(Loaded, v.id)

\* C2: an identifier whose only records are upload_failed is not in the
\* processed set, and a candidate with such an identifier is not skipped as
\* already processed.
C2_RetryEligible ==
    /\ \A id \in Ids : OnlyUploadFailed(ledger, id) => id \notin processed
    /\ outcome = "skip_processed" => ~OnlyUploadFailed(ledger, v.id)

\* C3: with remote cleanup on, the step that finds the job not completed
\* appends no record, leaves the processed set alone, calls delete_task once,
\* goes on to the next candidate, and leaves the candidate out of what the
\* next run loads, so that the next run submits it again.
C3_JobFailure ==
    [][(pc = "wait" /\ pc' # "download_srt" /\ cleanup_remote)
          => /\ ledger' = ledger
             /\ processed' = processed
             /\ deleted' = deleted + 1
             /\ pc' = "loop"
             /\ v.id \notin LoadHistoryIds(ledger')]_vars

\* C4 (as stated): the step that records a successful publish appends exactly
\* one record, a completed record for the candidate's identifier, and an
\* immediate load of the ledger returns that identifier.
C4_Success ==
    [][(pc = "uploaded" /\ upRet[1])
          => /\ Len(ledger') = Len(ledger) + 1
             /\ SubSeq(ledger', 1, Len(ledger)) = ledger
             /\ IsCompleted(ledger'[Len(ledger')])
             /\ RecordId(ledger'[Len(ledger')]) = v.id
             /\ v.id \in LoadHistoryIds(ledger')]_vars

\* C4 (amended): the same, for a candidate with a non-empty identifier.
C4_SuccessNonEmptyId ==
    [][(pc = "uploaded" /\ upRet[1] /\ v.id # "")
          => /\ Len(ledger') = Len(ledger) + 1
             /\ SubSeq(ledger', 1, Len(ledger)) = ledger
             /\ IsCompleted(ledger'[Len(ledger')])
             /\ RecordId(ledger'[Len(ledger')]) = v.id
             /\ v.id \in LoadHistoryIds(ledger')]_vars

\* A publish has succeeded for a candidate with an identifier and its record
\* is the last line of the ledger.
C4_Witness ==
    /\ outcome = "completed"
    /\ v.id # ""
    /\ Len(ledger) > 0
    /\ IsCompleted(ledger[Len(ledger)])
    /\ RecordId(ledger[Len(ledger)]) = v.id

\* C5: no run ends on a candidate's failure while candidates or keywords are
\* still to be visited.
C5_NoAbort == pc = "crashed" => (vidLeft = 0 /\ kwLeft = 0)

\* C6: with remote cleanup on, once the controller has left a candidate for
\* which a job was submitted, delete_task has been called once for that job.
C6_CleanupAlways ==
    (cleanup_remote /\ task_id # "" /\ pc \in {"loop", "done", "crashed"})
        => deleted = 1

\* This step takes the next candidate from the search results (218-269);
\* the candidate is v'.
VisitCandidate == pc = "loop" /\ vidLeft > 0 /\ vidLeft' = vidLeft - 1

\* The candidate was skipped without any effect: nothing appended, the
\* processed set as before, and control back at the loop, so that neither
\* check_duplicate nor process_url nor the publisher is called for it.
SkippedSilently ==
    /\ outcome' = "skip_processed"
    /\ ledger' = ledger
    /\ processed' = processed
    /\ pc' = "loop"
    /\ task_id' = ""
    /\ codes' = codes

\* C12 (as stated): a candidate whose identifier is in the processed set is
\* skipped before the duration, blacklist and date checks, without any
\* effect.
C12_ProcessedFirst ==
    [][(VisitCandidate /\ v'.id \in processed) => SkippedSilently]_vars

\* C12 (amended): the same, for a candidate with a non-empty identifier.
C12_ProcessedFirstNonEmptyId ==
    [][(VisitCandidate /\ v'.id # "" /\ v'.id \in processed)
          => SkippedSilently]_vars

\* A candidate in the processed set that the duration check would also
\* reject was skipped as already processed.
C12_Witness ==
    /\ outcome = "skip_processed"
    /\ v.id \in processed
    /\ DurationOut(v)
    /\ pc = "loop"

\* The lines of the file written for identifier id that are completed or
\* skipped records, and those that are upload_failed records.
TerminalLines(file, id) ==
    { k \in DOMAIN file :
        /\ "yt_id" \in DOMAIN file[k]
        /\ file[k].yt_id = id
        /\ (IsCompleted(file[k]) \/ IsSkipped(file[k])) }
UploadFailedLines(file, id) ==
    { k \in DOMAIN file :
        "yt_id" \in DOMAIN file[k] /\ file[k].yt_id = id /\ IsUploadFailed(file[k]) }

\* C16 (as stated): the ledger never holds more than one completed or
\* skipped record for the same identifier.
C16_Unique == \A id \in Ids : Cardinality(TerminalLines(ledger, id)) <= 1

\* C16 (amended): the same, for every non-empty identifier.
C16_UniqueNonEmptyId ==
    \A id \in Ids \ {""} : Cardinality(TerminalLines(ledger, id)) <= 1

\* An identifier has two upload_failed records and then one completed record.
C16_Witness ==
    \E id \in Ids \ {""} :
        /\ Cardinality(UploadFailedLines(ledger, id)) = 2
        /\ Cardinality(TerminalLines(ledger, id)) = 1
        /\ IsCompleted(ledger[Len(ledger)])

\* C17: every step of the pipeline leaves the lines the ledger already
\* holds unchanged and in place: the ledger after the step is the ledger
\* before it followed by zero or more new lines.
C17_AppendOnly ==
    [][/\ Len(ledger') >= Len(ledger)
       /\ SubSeq(ledger', 1, Len(ledger)) = ledger]_vars

\* A second run has appended a line behind the lines of the first run.
C17_Witness ==
    /\ run = 2
    /\ loaded >= 1
    /\ Len(ledger) > loaded

\* The calls of a candidate that goes all the way, in the order of the
\* pipeline.
StepOrder ==
    <<"filter", "duplicate_negative", "submit", "poll_completed", "fetch_subtitle",
      "fetch_media", "metadata", "publish", "record">>

\* What may stand in place of a step when the candidate ends there.
EndsWith(k) ==
    IF k = 2 THEN {"duplicate_positive"} ELSE IF k = 4 THEN {"poll_failed"} ELSE {}

\* C18: the calls made for a candidate follow the order filter, duplicate
\* check, submit, poll, fetch subtitle, fetch media, generate metadata,
\* publish, record; process_url is called only after a negative duplicate
\* verdict, and the publisher only after the poll returned completed and
\* both artifacts were fetched.
C18_StepOrder ==
    /\ [](/\ Len(trail) <= Len(StepOrder)
          /\ \A k \in DOMAIN trail :
                \/ trail[k] = StepOrder[k]
                \/ k = Len(trail) /\ trail[k] \in EndsWith(k))
    /\ [][SubmitCall => trail = SubSeq(StepOrder, 1, 2)]_vars
    /\ [][PublishCall => SubSeq(trail, 1, 7) = SubSeq(StepOrder, 1, 7)]_vars

\* A candidate went through every step and its publish failed.
C18_Witness ==
    /\ trail = StepOrder
    /\ outcome = "upload_failed"
    /\ pc = "loop"

\* The reason of the first static check that rejects candidate c, "" when
\* none does: duration outside [10, 3600], uploader "bad" in any case, upload
\* date 2010-01-01.
FirstReason(c) ==
    IF c.duration # <<>> /\ (c.duration[1] < 10 \/ c.duration[1] > 3600)
    THEN "duration_out_of_range"
    ELSE IF c.uploader \in {"bad", "Bad"} THEN "blacklisted_channel"
    ELSE IF c.upload_date = "20100101" THEN "too_old"
    ELSE ""

\* The step rejected v' for reason and recorded it.
Rejected(reason) ==
    /\ pc' = "loop"
    /\ trail' = <<"filter">>
    /\ task_id' = ""
    /\ Len(ledger') = Len(ledger) + 1
    /\ SubSeq(ledger', 1, Len(ledger)) = ledger
    /\ IsSkipped(ledger'[Len(ledger')])
    /\ ledger'[Len(ledger')].reason = reason
    /\ ledger'[Len(ledger')].yt_id = v'.id
    /\ processed' = processed \cup {v'.id}

\* The step let v' through to the Duplicate Judge without recording anything.
Passed ==
    /\ pc' = "check_duplicate"
    /\ ledger' = ledger
    /\ processed' = processed

\* C19 (as stated): a candidate not in the processed set is rejected by the
\* first of the duration, blacklist and date checks that matches, with one
\* skipped record of that reason and its identifier added to the processed
\* set, and is passed on when none matches; a missing or malformed date
\* never rejects.
C19_FilterOrder ==
    [][(VisitCandidate /\ v'.id \notin processed)
          => /\ FirstReason(v') # "" => Rejected(FirstReason(v'))
             /\ FirstReason(v') = "" => Passed
             /\ (v'.upload_date \in {"", "2010", "2024ab01"}
                    /\ FirstReason(v') \notin {"duration_out_of_range",
                                               "blacklisted_channel"}) => Passed]_vars

\* C19 (amended): the same, for a candidate with a non-empty identifier.
C19_FilterOrderNonEmptyId ==
    [][(VisitCandidate /\ v'.id # "" /\ v'.id \notin processed)
          => /\ FirstReason(v') # "" => Rejected(FirstReason(v'))
             /\ FirstReason(v') = "" => Passed
             /\ (v'.upload_date \in {"", "2010", "2024ab01"}
                    /\ FirstReason(v') \notin {"duration_out_of_range",
                                               "blacklisted_channel"}) => Passed]_vars

\* A candidate that the blacklist and the date check both reject was
\* recorded as blacklisted.
C19_Witness ==
    /\ outcome = "skip_blacklist"
    /\ v.id # ""
    /\ v.upload_date = "20100101"
    /\ pc = "loop"
    /\ Len(ledger) > 0
    /\ ledger[Len(ledger)].reason = "blacklisted_channel"
    /\ ledger[Len(ledger)].yt_id = v.id

\* The file holds a skipped record with reason duplicate for identifier id.
HasDuplicateRecord(file, id) ==
    \E k \in DOMAIN file :
        /\ IsSkipped(file[k])
        /\ file[k].reason = "duplicate"
        /\ RecordId(file[k]) = id

\* This step receives a positive verdict from check_duplicate for v.
PositiveVerdict == pc = "check_duplicate" /\ pc' = "loop"

\* The step appended one skipped record with reason duplicate for v and
\* added v's identifier to the processed set.
RecordedDuplicate ==
    /\ Len(ledger') = Len(ledger) + 1
    /\ SubSeq(ledger', 1, Len(ledger)) = ledger
    /\ IsSkipped(ledger'[Len(ledger')])
    /\ ledger'[Len(ledger')].reason = "duplicate"
    /\ RecordId(ledger'[Len(ledger')]) = v.id
    /\ processed' = processed \cup {v.id}
    /\ task_id' = ""

\* C20 (as stated): a positive verdict appends exactly one skipped record
\* with reason duplicate and adds the identifier to the processed set, and
\* process_url is never called for a candidate that has such a record, in
\* this run or a later one.
C20_Duplicate ==
    /\ [][PositiveVerdict => RecordedDuplicate]_vars
    /\ [][SubmitCall => ~HasDuplicateRecord(ledger, v.id)]_vars

\* C20 (amended): the same, for a candidate with a non-empty identifier.
C20_DuplicateNonEmptyId ==
    /\ [][(PositiveVerdict /\ v.id # "") => RecordedDuplicate]_vars
    /\ [][(SubmitCall /\ v.id # "") => ~HasDuplicateRecord(ledger, v.id)]_vars

\* A later run meets a candidate that an earlier run recorded as a
\* duplicate, and skips it.
C20_Witness ==
    /\ run = 2
    /\ outcome = "skip_processed"
    /\ v.id # ""
    /\ HasDuplicateRecord(Loaded, v.id)

\* This step records that upload_with_retry returned failure for v.
PublishGaveUp == pc = "uploaded" /\ ~upRet[1]

\* The step appended one upload_failed record for v with attempt count n
\* and the diagnostic of the last exit code, left the processed set as it
\* was and without v's identifier, and went on with the loop.
RecordedFailure(n) ==
    /\ Len(ledger') = Len(ledger) + 1
    /\ SubSeq(ledger', 1, Len(ledger)) = ledger
    /\ IsUploadFailed(ledger'[Len(ledger')])
    /\ ledger'[Len(ledger')].yt_id = v.id
    /\ ledger'[Len(ledger')].attempts = n
    /\ ledger'[Len(ledger')].reason = Diag(codes[Len(codes)])
    /\ processed' = processed
    /\ v.id \notin processed'
    /\ pc' = "loop"

\* C21 (as stated): a failed publish appends one upload_failed record with
\* the number of attempts made and the diagnostic, does not add the
\* identifier to the processed set, and the run goes on.
C21_PublishExhausted ==
    [][PublishGaveUp => RecordedFailure(Len(codes))]_vars

\* C21 (amended): for a candidate with a non-empty identifier, a failed
\* publish appends one upload_failed record with the configured attempt
\* count, which is the number of attempts made when it is at least 1, and
\* the diagnostic, does not add the identifier to the processed set, and the
\* run goes on.
C21_PublishExhaustedNonEmptyId ==
    [][(PublishGaveUp /\ v.id # "")
          => /\ RecordedFailure(attempts)
             /\ attempts >= 1 => Len(codes) = attempts
             /\ attempts < 1 => Len(codes) = 1]_vars

\* After a failed publish the same identifier was found again in the run and
\* submitted again.
C21_Witness ==
    /\ pc = "wait"
    /\ v.id # ""
    /\ UploadFailedLines(ledger, v.id) # {}
    /\ v.id \notin processed

(***************************************************************************)
(* Properties of wait_task_with_progress.                                  *)
(***************************************************************************)
\* C7: whatever get_status does, transport errors included,
\* wait_task_with_progress returns.
C7_PollReturns == <>(pollPc = "returned")

(***************************************************************************)
(* Properties of upload_with_retry.                                        *)
(***************************************************************************)
\* C8: the publisher is invoked at most max(1, attempts) times and never
\* after an exit code 0; an exit code 0 is returned at once as success; a
\* failure is returned only after max(1, attempts) failed invocations and
\* carries the last exit code; there are fewer sleeps than max(1, attempts),
\* and at the return one fewer than invocations, so none follows the last.
C8_PublishRetry ==
    /\ Len(codes) <= Max(1, attempts)
    /\ \A k \in 1..(Len(codes) - 1) : codes[k] # 0
    /\ (Len(codes) > 0 /\ codes[Len(codes)] = 0)
          => (pc = "uploaded" /\ upRet = <<TRUE, 0>>)
    /\ pc = "uploaded"
          => /\ Len(codes) > 0
             /\ upRet[2] = codes[Len(codes)]
             /\ upRet[1] = (codes[Len(codes)] = 0)
             /\ ~upRet[1] => Len(codes) = Max(1, attempts)
             /\ Len(sleeps) = Len(codes) - 1
    /\ Len(sleeps) <= Max(1, attempts) - 1

\* Three invocations failed with different exit codes and the failure was
\* returned.
C8_Witness ==
    /\ pc = "uploaded"
    /\ ~upRet[1]
    /\ attempts = 3
    /\ Len(codes) = 3
    /\ codes[1] # codes[3]
    /\ Len(sleeps) = 2

\* C9 (as stated): for an initial backoff b >= 1 the sleep before attempt k
\* (k > 1) is min(b * 2^(k-2), 300); sleeps[j] is the sleep before attempt j+1.
C9_Backoff ==
    backoff_sec >= 1
        => \A j \in 1..Len(sleeps) :
              sleeps[j] = Min(backoff_sec * 2^(j - 1), 300)

\* C9 (amended): for b >= 1 the sleep before attempt 2 is b itself and the
\* sleep before attempt k > 2 is min(b * 2^(k-2), 300); with b = 20 this is
\* min(20 * 2^(k-2), 300) for every k > 1.
C9_BackoffFirstUncapped ==
    /\ backoff_sec >= 1
        => \A j \in 1..Len(sleeps) :
              sleeps[j] = IF j = 1 THEN backoff_sec
                          ELSE Min(backoff_sec * 2^(j - 1), 300)
    /\ backoff_sec = 20
        => \A j \in 1..Len(sleeps) : sleeps[j] = Min(20 * 2^(j - 1), 300)

\* With b = 20, five sleeps were made and the fifth met the cap.
C9_Witness ==
    /\ backoff_sec = 20
    /\ Len(sleeps) = 5
    /\ sleeps[4] = 160
    /\ sleeps[5] = 300

(***************************************************************************)
(* Properties of chat_json.                                                *)
(***************************************************************************)
\* C10: chat_json, given at least one attempt, returns only when some attempt
\* produced a JSON object or a JSON array, and raises only after the loop
\* has gone through all its attempts.
C10_NeverSilentEmpty ==
    /\ (cjPc = "returned" /\ max_tries >= 1)
          => \E k \in DOMAIN kinds : kinds[k] \in {"object", "array"}
    /\ cjPc = "raised" => cj_i >= max_tries

\* C11: no completion is requested once the time elapsed since the start of
\* chat_json has reached total_timeout, and an attempt that starts at or
\* after that point fails with a timeout error without requesting one.
C11_Budget ==
    /\ [](\A k \in DOMAIN calls : calls[k] < total_timeout)
    /\ [][(cjPc = "loop" /\ cj_i < max_tries /\ cjNow >= total_timeout)
             => /\ calls' = calls
                /\ last_err' = "TimeoutError"
                /\ kinds' = Append(kinds, "budget")
                /\ cjPc' = "loop"
                /\ cj_i' = cj_i + 1]_vars

\* A completion was requested, the budget ran out, and the following
\* attempt failed without a request.
C11_Witness ==
    /\ total_timeout > 0
    /\ Len(calls) >= 1
    /\ Len(kinds) > Len(calls)
    /\ kinds[Len(kinds)] = "budget"
    /\ last_err = "TimeoutError"

(***************************************************************************)
(* Properties of run_biliup.                                               *)
(***************************************************************************)
\* The tags that make up the tag string.
PassedTags == Prefix(filt, TagLimit)

RECURSIVE Trimmed(_)
Trimmed(t) ==
    IF t = <<>> THEN t
    ELSE IF Head(t) = " " THEN Trimmed(Tail(t))
    ELSE IF t[Len(t)] = " " THEN Trimmed(SubSeq(t, 1, Len(t) - 1))
    ELSE t

C14_WitnessFallback ==
    /\ tagPc = "built"
    /\ Len(tags) > 6
    /\ Len(PassedTags) = 6
    /\ \A k \in DOMAIN tags : Len(Trimmed(tags[k])) \notin 2..4

(***************************************************************************)
(* Properties of check_duplicate.                                          *)
(***************************************************************************)
\* check_duplicate has returned its verdict.
DupReturned == dupPc \in {"returned", "decided"}

\* What each failure leaves behind: the original title as the query, an
\* empty candidate list, a negative verdict with the failure as its reason.
FailOpen ==
    /\ ("translate" \in failed /\ dupPc # "translate") => query_title = title
    /\ ("lookup" \in failed /\ dupPc \notin {"translate", "lookup"})
          => (candidates = <<>> /\ result[1].candidates = <<>>)
    /\ ("judge" \in failed /\ DupReturned)
          => (~result[1].duplicate /\ result[1].reason = "judge failed")
    /\ DupReturned => result # <<>>

\* C15 (as stated): a failed translation leaves the original title as the
\* query, a failed lookup an empty candidate list, a failed judge call a
\* negative verdict whose reason records the failure; and whenever one of
\* the three has failed the candidate goes on to job submission.
C15_FailOpen ==
    /\ FailOpen
    /\ (failed # {} /\ dupPc = "decided") => dupNext = "submit"

\* C15 (amended): the same, the candidate going on to job submission
\* whenever the judge call has failed.
C15_FailOpenJudge ==
    /\ FailOpen
    /\ ("judge" \in failed /\ dupPc = "decided") => dupNext = "submit"

\* The translation, the lookup and the judge call all failed and the
\* candidate went on to job submission.
C15_Witness ==
    /\ failed = {"translate", "lookup", "judge"}
    /\ dupPc = "decided"
    /\ dupNext = "submit"
    /\ query_title = "title"

\* This step is an attempt of chat_json that failed.
FailedAttempt == reminders' = reminders + 1

\* The time at which the attempt of this step ended, before any sleep.
AttemptEnd ==
    IF Len(cjSleeps') > Len(cjSleeps)
    THEN cjNow' - cjSleeps'[Len(cjSleeps')]
    ELSE cjNow'

\* C22: an attempt that fails when the time budget is used up is followed by
\* no time spent in a backoff sleep, and once an attempt has failed and the budget is used
\* up the next step raises the last error, without another attempt.
C22_BudgetEndsLoop ==
    /\ [][(FailedAttempt /\ AttemptEnd >= total_timeout)
             => cjNow' = AttemptEnd]_vars
    /\ [][(cjPc = "loop" /\ last_err # "" /\ cjNow >= total_timeout)
             => (cjPc' = "raised" /\ kinds' = kinds)]_vars

\* The attempts so far that produced neither an object nor an array.
Fruitless == { k \in DOMAIN kinds : kinds[k] \notin {"object", "array"} }

\* C23: every attempt that produces no result appends one corrective
\* reminder and, unless it is the final attempt, is followed by a backoff
\* sleep, the j-th such sleep lasting min(b * 2^(j-1), 60) seconds for the
\* initial backoff b.
C23_CorrectiveLoop ==
    /\ reminders = Cardinality(Fruitless)
    /\ Len(cjSleeps) = Cardinality(Fruitless \ {max_tries})
    /\ \A j \in DOMAIN cjSleeps :
          cjSleeps[j] = Min(retry_backoff * 2^(j - 1), 60)

\* The identifiers of the upload_failed lines appended since the run loaded
\* the ledger.
FailedThisRun ==
    { RecordId(ledger[k]) :
        k \in { j \in DOMAIN ledger : j > loaded /\ IsUploadFailed(ledger[j]) } }

\* The identifiers of the lines appended since the run loaded the ledger.
AppendedThisRun ==
    { RecordId(ledger[k]) : k \in { j \in DOMAIN ledger : j > loaded } }

\* main has loaded the ledger into the processed set (auto_runner.py 210).
HasLoaded == pc \notin {"idle", "startup_failed"}

\* C26 (as stated): at every point of a run the in-memory processed set is a subset
\* of what load_history_ids returns from the ledger, and the two differ only
\* by identifiers whose record was appended without marking them processed.
C26_MemoryOnDisk ==
    HasLoaded =>
        /\ processed \subseteq LoadHistoryIds(ledger)
        /\ (LoadHistoryIds(ledger) \ processed) \subseteq FailedThisRun

\* C26 (amended): the same for the non-empty identifiers in the processed
\* set; the empty identifier, once in the set, has a line in the ledger that
\* load_history_ids does not return.
C26_MemoryOnDiskNonEmptyId ==
    HasLoaded =>
        /\ (processed \ {""}) \subseteq LoadHistoryIds(ledger)
        /\ (LoadHistoryIds(ledger) \ processed) \subseteq FailedThisRun
        /\ "" \in processed
              => \E k \in DOMAIN ledger :
                     /\ IsCompleted(ledger[k])
                     /\ "yt_id" \in DOMAIN ledger[k]
                     /\ ledger[k].yt_id = ""

\* In one run an identifier was recorded and marked processed and another
\* was recorded as upload_failed and left out of the set.
C26_Witness ==
    /\ HasLoaded
    /\ (AppendedThisRun \cap processed) \ {""} # {}
    /\ LoadHistoryIds(ledger) \ processed # {}

\* C25: whenever the lookup left an empty candidate list, because it found
\* nothing or because it failed, the verdict check_duplicate returns has
\* duplicate = false, whatever the judge answered.
C25_EmptyMeansNew ==
    (DupReturned /\ candidates = <<>>) => ~result[1].duplicate

(***************************************************************************)
(* Properties of _extract_json.                                            *)
(***************************************************************************)
\* What each stage yields for text t, <<>> when it yields no parsed JSON:
\* the whole text, the span from the first "{" to the last "}" behind it,
\* the span from the first "[" to the last "]" behind it.
StageWhole(t) == IF IsJson(t) THEN <<t>> ELSE <<>>
StageBrace(t) ==
    IF Search(t, "{", "}") # <<>> /\ IsJson(Search(t, "{", "}")[1])
    THEN Search(t, "{", "}") ELSE <<>>
StageBracket(t) ==
    IF Search(t, "[", "]") # <<>> /\ IsJson(Search(t, "[", "]")[1])
    THEN Search(t, "[", "]") ELSE <<>>

\* The first stage that yields parsed JSON decides.
Staged(t) ==
    IF StageWhole(t) # <<>> THEN StageWhole(t)
    ELSE IF StageBrace(t) # <<>> THEN StageBrace(t)
    ELSE StageBracket(t)

\* C24: _extract_json returns what the first of the three stages that
\* yields parsed JSON yields and raises only when none does; an array makes
\* chat_json return it wrapped under "list", and an object behind leading
\* prose is returned as it is.
C24_Stages ==
    /\ exPc # "call" => exData = Staged(txt)
    /\ exPc = "raised" => Staged(txt) = <<>>
    /\ (exPc \in {"returned", "next"} /\ Staged(txt) # <<>>
           /\ Staged(txt)[1][1] = "[") => exOut = <<[list |-> Staged(txt)[1]]>>
    /\ (exPc \in {"returned", "next"} /\ Len(txt) >= 3 /\ txt[1] = "x"
           /\ IsJson(Tail(txt)) /\ txt[2] = "{") => exOut = <<[dict |-> Tail(txt)]>>

====
